---- MODULE Spec2Model ----
(***************************************************************************)
(* The music player view of frontend/app/routes/home.tsx: the Home         *)
(* component's display state, its event handlers, the listener effect, and *)
(* the native <audio> element the handlers drive.                          *)
(*                                                                         *)
(* Numbers are fixed-point, in tenths (Scale units per 1.0): the volume    *)
(* slider moves in steps of 0.1 and the seek slider in steps of 1.         *)
(* Text (titles, the search string, an input's value) is a sequence of     *)
(* one-character strings.                                                  *)
(***************************************************************************)
EXTENDS Integers, Sequences, FiniteSets

VARIABLES
    isPlaying,      \* useState(false)
    currentTime,    \* useState(0)
    duration,       \* useState(0)
    volume,         \* useState(0.7)
    searchQuery,    \* useState("")
    currentTrack,   \* useState(sampleTracks[0])
    audio,          \* the <audio> element behind audioRef
    listeners,      \* listeners attached to the element, per event kind
    phase,          \* "rendered" (before the effect ran), "mounted", "unmounted"
    lastEvent,      \* the handler that ran last
    eventValue,     \* e.target.value of the last input event (the key of the
                    \* clicked card for a track click)
    calls,          \* the native methods and setters the last handler used
    toggleBase,     \* isPlaying when the current run of toggles began
    toggleOdd       \* whether the current run of toggles has odd length

vars == <<isPlaying, currentTime, duration, volume, searchQuery, currentTrack,
          audio, listeners, phase, lastEvent, eventValue, calls,
          toggleBase, toggleOdd>>

display == <<isPlaying, currentTime, duration, volume, searchQuery, currentTrack>>

----------------------------------------------------------------------------
(* Bounds *)

\* Length of the media resource, in seconds.
MediaDurationSec == 2

\* Tasks the element's event task source may hold at once.
MaxTasks == 2

\* Longest search string typed in the filter specification.
MaxQueryLen == 3

\* The volume inputs tried are the slider's stops that are multiples of this.
VolumeStride == 5

----------------------------------------------------------------------------
(* Numbers and text *)

\* Fixed-point scale: the volume input's step="0.1" is one unit.
Scale == 10

\* useState(0.7)
InitialVolume == 7

\* A duration that is not known (audio.duration before the metadata is loaded).
NaN == -1

Min(a, b) == IF a < b THEN a ELSE b

Max(a, b) == IF a > b THEN a ELSE b

DigitChars == <<"0", "1", "2", "3", "4", "5", "6", "7", "8", "9">>

IsDigit(c) == \E i \in 1..10 : DigitChars[i] = c

DigitValue(c) == (CHOOSE i \in 1..10 : DigitChars[i] = c) - 1

RECURSIVE IntToString(_)
IntToString(n) ==
    IF n < 10 THEN <<DigitChars[n + 1]>>
    ELSE IntToString(n \div 10) \o <<DigitChars[(n % 10) + 1]>>

\* The string a range input gives for its (sanitised) value.
NumberToString(n) ==
    IF n % Scale = 0 THEN IntToString(n \div Scale)
    ELSE IntToString(n \div Scale) \o <<".">> \o <<DigitChars[(n % Scale) + 1]>>

RECURSIVE ParseDigits(_, _)
ParseDigits(s, acc) ==
    IF s = <<>> \/ ~IsDigit(Head(s)) THEN <<acc, s>>
    ELSE ParseDigits(Tail(s), acc * 10 + DigitValue(Head(s)))

\* Variant: the fraction is dropped, as parseInt would.
parseFloat_DropsFraction(s) == ParseDigits(s, 0)[1] * Scale

\* parseFloat: the integer digits, then an optional "." and fraction digit.
parseFloat(s) ==
    LET int  == ParseDigits(s, 0)
        rest == int[2]
    IN  IF Len(rest) >= 2 /\ rest[1] = "." /\ IsDigit(rest[2])
        THEN int[1] * Scale + DigitValue(rest[2])
        ELSE int[1] * Scale

\* The values a range input can report: min, min+step, ... up to max.
RangeValues(min, max, step) ==
    { NumberToString(n) : n \in { m \in min..max : (m - min) % step = 0 } }

UpperCase == <<"A","B","C","D","E","F","G","H","I","J","K","L","M",
               "N","O","P","Q","R","S","T","U","V","W","X","Y","Z">>

LowerCase == <<"a","b","c","d","e","f","g","h","i","j","k","l","m",
               "n","o","p","q","r","s","t","u","v","w","x","y","z">>

toLowerCase(s) ==
    [ i \in DOMAIN s |->
        IF \E k \in 1..26 : UpperCase[k] = s[i]
        THEN LowerCase[CHOOSE k \in 1..26 : UpperCase[k] = s[i]]
        ELSE s[i] ]

includes(s, q) ==
    \E off \in 0..(Len(s) - Len(q)) : SubSeq(s, off + 1, off + Len(q)) = q

----------------------------------------------------------------------------
(* The track list and the filter *)

BellUrl == "https://www.soundjay.com/misc/sounds/bell-ringing-05.wav"

sampleTracks ==
    << [id |-> 1, title |-> <<"T","r","a","c","k"," ","1">>,
        artist |-> <<"A","r","t","i","s","t"," ","1">>, url |-> BellUrl],
       [id |-> 2, title |-> <<"T","r","a","c","k"," ","2">>,
        artist |-> <<"A","r","t","i","s","t"," ","2">>, url |-> BellUrl],
       [id |-> 3, title |-> <<"T","r","a","c","k"," ","3">>,
        artist |-> <<"A","r","t","i","s","t"," ","3">>, url |-> BellUrl] >>

\* Variant: the search string is compared as typed, not lower-cased.
trackMatches_RawQuery(track, q) ==
    \/ includes(toLowerCase(track.title), q)
    \/ includes(toLowerCase(track.artist), q)

trackMatches(track, q) ==
    \/ includes(toLowerCase(track.title), toLowerCase(q))
    \/ includes(toLowerCase(track.artist), toLowerCase(q))

filterTracks(q) ==
    LET keep(track) == trackMatches(track, q)
    IN  SelectSeq(sampleTracks, keep)

filteredTracks == filterTracks(searchQuery)

----------------------------------------------------------------------------
(* The native audio element *)

EventKinds == {"timeupdate", "loadedmetadata", "ended"}

\* The element as created by <audio src=... preload="metadata">.
NewAudio(url) ==
    [ src          |-> url,
      loading      |-> TRUE,
      error        |-> FALSE,
      readyState   |-> "HAVE_NOTHING",
      paused       |-> TRUE,
      position     |-> 0,
      defaultStart |-> 0,
      duration     |-> NaN,
      volume       |-> Scale,
      tasks        |-> <<>> ]

queue(a, kinds) == [a EXCEPT !.tasks = @ \o kinds]

Room(n) == Len(audio.tasks) + n <= MaxTasks

endedPlayback(a) ==
    a.readyState = "HAVE_METADATA" /\ a.position = a.duration

potentiallyPlaying(a) ==
    ~a.paused /\ ~a.error /\ a.readyState = "HAVE_METADATA" /\ ~endedPlayback(a)

\* The seek algorithm: the new position is brought into the resource.
seek(a, t) ==
    queue([a EXCEPT !.position = Max(0, Min(t, a.duration))], <<"timeupdate">>)

\* audio.currentTime, read
getCurrentTime(a) == IF a.defaultStart # 0 THEN a.defaultStart ELSE a.position

\* audio.currentTime = t
setCurrentTime(a, t) ==
    IF a.readyState = "HAVE_NOTHING"
    THEN [a EXCEPT !.defaultStart = t]
    ELSE seek(a, t)

\* audio.volume = v
setVolume(a, v) == [a EXCEPT !.volume = v]

\* audio.play(): the promise is rejected, and nothing changes, when the source
\* could not be loaded.
play(a) ==
    IF a.error THEN a
    ELSE LET b == IF endedPlayback(a) THEN seek(a, 0) ELSE a
         IN  [b EXCEPT !.paused = FALSE]

\* audio.pause()
pause(a) ==
    IF a.paused THEN a
    ELSE queue([a EXCEPT !.paused = TRUE], <<"timeupdate">>)

\* audio.src = url: the load algorithm drops the pending tasks, resets the
\* element and starts fetching.
setSrc(a, url) ==
    [ a EXCEPT !.src = url,
               !.loading = TRUE,
               !.error = FALSE,
               !.readyState = "HAVE_NOTHING",
               !.paused = TRUE,
               !.position = 0,
               !.duration = NaN,
               !.tasks = IF a.position # 0 THEN <<"timeupdate">> ELSE <<>> ]

----------------------------------------------------------------------------
(* Bookkeeping of what the last step did *)

Call(op, num, str) == [op |-> op, num |-> num, str |-> str]

Record(ev, val, cs) ==
    /\ lastEvent' = ev
    /\ eventValue' = val
    /\ calls' = cs

\* A handler that writes isPlaying itself starts a new run of toggles.
NewToggleRun ==
    /\ toggleBase' = isPlaying'
    /\ toggleOdd' = FALSE

SameToggleRun == UNCHANGED <<toggleBase, toggleOdd>>

----------------------------------------------------------------------------
(* The state after the first render, before the effect has run *)

Init ==
    /\ isPlaying = FALSE
    /\ currentTime = 0
    /\ duration = 0
    /\ volume = InitialVolume
    /\ searchQuery = <<>>
    /\ currentTrack = sampleTracks[1]
    /\ audio = NewAudio(sampleTracks[1].url)
    /\ listeners = [k \in EventKinds |-> 0]
    /\ phase = "rendered"
    /\ lastEvent = "render"
    /\ eventValue = <<>>
    /\ calls = <<>>
    /\ toggleBase = FALSE
    /\ toggleOdd = FALSE

----------------------------------------------------------------------------
(* The effect: listener registration and its cleanup *)

addEventListeners == listeners' = [k \in EventKinds |-> listeners[k] + 1]

\* Variant: the cleanup forgets the ended listener.
removeEventListeners_KeepsEnded ==
    listeners' = [k \in EventKinds |->
                    IF k = "ended" THEN listeners[k] ELSE listeners[k] - 1]

removeEventListeners == listeners' = [k \in EventKinds |-> listeners[k] - 1]

Mount ==
    /\ phase = "rendered"
    /\ phase' = "mounted"
    /\ addEventListeners
    /\ Record("mount", <<>>, <<>>)
    /\ UNCHANGED <<display, audio>>
    /\ SameToggleRun

\* The cleanup runs and the element leaves the document, which pauses it.
Unmount ==
    /\ phase = "mounted"
    /\ Room(1)
    /\ phase' = "unmounted"
    /\ removeEventListeners
    /\ audio' = pause(audio)
    /\ Record("unmount", <<>>, <<>>)
    /\ UNCHANGED display
    /\ SameToggleRun

----------------------------------------------------------------------------
(* The handlers of the view *)

\* Variant: play() is called whatever the flag says.
togglePlay_AlwaysPlays ==
    /\ phase = "mounted"
    /\ Room(1)
    /\ audio' = play(audio)
    /\ calls' = <<Call("play", 0, "")>>
    /\ isPlaying' = ~isPlaying
    /\ lastEvent' = "togglePlay"
    /\ eventValue' = <<>>
    /\ toggleOdd' = ~toggleOdd
    /\ UNCHANGED <<currentTime, duration, volume, searchQuery, currentTrack,
                   listeners, phase, toggleBase>>

togglePlay ==
    /\ phase = "mounted"
    /\ Room(1)
    /\ IF isPlaying
       THEN audio' = pause(audio) /\ calls' = <<Call("pause", 0, "")>>
       ELSE audio' = play(audio) /\ calls' = <<Call("play", 0, "")>>
    /\ isPlaying' = ~isPlaying
    /\ lastEvent' = "togglePlay"
    /\ eventValue' = <<>>
    /\ toggleOdd' = ~toggleOdd
    /\ UNCHANGED <<currentTime, duration, volume, searchQuery, currentTrack,
                   listeners, phase, toggleBase>>

\* Variant: only the displayed time is set, the element is not sought.
handleSeek_DisplayOnly(value) ==
    LET time == parseFloat(value)
    IN  /\ phase = "mounted"
        /\ Room(1)
        /\ currentTime' = time
        /\ Record("handleSeek", value, <<>>)
        /\ UNCHANGED <<isPlaying, duration, volume, searchQuery, currentTrack,
                       audio, listeners, phase>>
        /\ SameToggleRun

handleSeek(value) ==
    LET time == parseFloat(value)
    IN  /\ phase = "mounted"
        /\ Room(1)
        /\ audio' = setCurrentTime(audio, time)
        /\ currentTime' = time
        /\ Record("handleSeek", value, <<Call("setCurrentTime", time, "")>>)
        /\ UNCHANGED <<isPlaying, duration, volume, searchQuery, currentTrack,
                       listeners, phase>>
        /\ SameToggleRun

handleVolumeChange(value) ==
    LET newVolume == parseFloat(value)
    IN  /\ phase = "mounted"
        /\ volume' = newVolume
        /\ audio' = setVolume(audio, newVolume)
        /\ Record("handleVolumeChange", value, <<Call("setVolume", newVolume, "")>>)
        /\ UNCHANGED <<isPlaying, currentTime, duration, searchQuery, currentTrack,
                       listeners, phase>>
        /\ SameToggleRun

\* Variant: the is-playing flag is not reset.
changeTrack_KeepsFlag(track) ==
    /\ phase = "mounted"
    /\ currentTrack' = track
    /\ currentTime' = 0
    /\ audio' = setSrc(audio, track.url)
    /\ Record("changeTrack", IntToString(track.id), <<Call("setSrc", 0, track.url)>>)
    /\ UNCHANGED <<isPlaying, duration, volume, searchQuery, listeners, phase>>
    /\ NewToggleRun

changeTrack(track) ==
    /\ phase = "mounted"
    /\ currentTrack' = track
    /\ isPlaying' = FALSE
    /\ currentTime' = 0
    /\ audio' = setSrc(audio, track.url)
    /\ Record("changeTrack", IntToString(track.id), <<Call("setSrc", 0, track.url)>>)
    /\ UNCHANGED <<duration, volume, searchQuery, listeners, phase>>
    /\ NewToggleRun

setSearchQuery(value) ==
    /\ phase = "mounted"
    /\ searchQuery' = value
    /\ Record("setSearchQuery", value, <<>>)
    /\ UNCHANGED <<isPlaying, currentTime, duration, volume, currentTrack,
                   audio, listeners, phase>>
    /\ SameToggleRun

\* The listeners of the effect.
updateTime ==
    /\ currentTime' = getCurrentTime(audio')
    /\ UNCHANGED <<isPlaying, duration>>
    /\ SameToggleRun

updateDuration ==
    /\ duration' = audio'.duration
    /\ UNCHANGED <<isPlaying, currentTime>>
    /\ SameToggleRun

\* Variant: the ended listener also rewinds the displayed time.
handleEnded_ResetsTime ==
    /\ isPlaying' = FALSE
    /\ currentTime' = 0
    /\ UNCHANGED duration
    /\ NewToggleRun

handleEnded ==
    /\ isPlaying' = FALSE
    /\ UNCHANGED <<currentTime, duration>>
    /\ NewToggleRun

----------------------------------------------------------------------------
(* What the element and its media resource do on their own *)

\* The metadata arrives: the duration is known, and a position asked for
\* while nothing was loaded is sought.
LoadSucceed ==
    /\ audio.loading
    /\ Room(2)
    /\ LET a == queue([audio EXCEPT !.loading = FALSE,
                                    !.readyState = "HAVE_METADATA",
                                    !.duration = MediaDurationSec * Scale],
                      <<"loadedmetadata">>)
       IN  audio' = IF a.defaultStart > 0
                    THEN [seek(a, a.defaultStart) EXCEPT !.defaultStart = 0]
                    ELSE a
    /\ Record("loadSucceed", <<>>, <<>>)
    /\ UNCHANGED <<display, listeners, phase>>
    /\ SameToggleRun

\* The resource cannot be fetched or decoded.
LoadFail ==
    /\ audio.loading
    /\ audio' = [audio EXCEPT !.loading = FALSE, !.error = TRUE]
    /\ Record("loadFail", <<>>, <<>>)
    /\ UNCHANGED <<display, listeners, phase>>
    /\ SameToggleRun

\* Playback advances by one second; at the end of the resource the element
\* queues the task that fires timeupdate and ended.
Tick ==
    /\ potentiallyPlaying(audio)
    /\ Room(2)
    /\ LET a == [audio EXCEPT !.position = Min(@ + Scale, audio.duration)]
       IN  audio' = IF endedPlayback(a)
                    THEN queue(a, <<"timeupdate", "ended">>)
                    ELSE queue(a, <<"timeupdate">>)
    /\ Record("tick", <<>>, <<>>)
    /\ UNCHANGED <<display, listeners, phase>>
    /\ SameToggleRun

\* The oldest queued event is fired at the element; before ended is fired
\* an element that has ended playback is paused.
Dispatch ==
    /\ audio.tasks # <<>>
    /\ LET kind == Head(audio.tasks)
           a    == [audio EXCEPT !.tasks = Tail(@)]
       IN  /\ audio' = IF kind = "ended" /\ endedPlayback(a)
                       THEN [a EXCEPT !.paused = TRUE]
                       ELSE a
           /\ Record(kind, <<>>, <<>>)
           /\ IF listeners[kind] > 0
              THEN CASE kind = "timeupdate"     -> updateTime
                     [] kind = "loadedmetadata" -> updateDuration
                     [] kind = "ended"          -> handleEnded
              ELSE UNCHANGED <<isPlaying, currentTime, duration>> /\ SameToggleRun
    /\ UNCHANGED <<volume, searchQuery, currentTrack, listeners, phase>>

----------------------------------------------------------------------------
(* Inputs *)

\* What the seek input can report: min="0" max={duration || 0}, step 1.
SeekValues == RangeValues(0, IF duration > 0 THEN duration ELSE 0, Scale)

\* What the volume input can report: min="0" max="1" step="0.1"; of these
\* stops, the ones tried.
VolumeValues ==
    { v \in RangeValues(0, Scale, 1) : parseFloat(v) % VolumeStride = 0 }

\* Search strings typed in the player specification.
SearchInputs == { <<>>, <<"A","R","T">>, <<"k"," ","2">> }

ToggleClick == togglePlay

SeekInput == \E value \in SeekValues : handleSeek(value)

VolumeInput == \E value \in VolumeValues : handleVolumeChange(value)

TrackClick == \E i \in 1..Len(filteredTracks) : changeTrack(filteredTracks[i])

SearchInput == \E value \in SearchInputs : setSearchQuery(value)

Next ==
    \/ Mount
    \/ Unmount
    \/ ToggleClick
    \/ SeekInput
    \/ VolumeInput
    \/ TrackClick
    \/ SearchInput
    \/ LoadSucceed
    \/ LoadFail
    \/ Tick
    \/ Dispatch

Spec == Init /\ [][Next]_vars

----------------------------------------------------------------------------
(* The filter on its own: every search string up to MaxQueryLen *)

QueryAlphabet == {"T", "t", "R", " ", "3", "x"}

RECURSIVE Strings(_)
Strings(n) ==
    IF n = 0 THEN { <<>> }
    ELSE LET shorter == Strings(n - 1)
         IN  shorter \cup { Append(s, c) : s \in { x \in shorter : Len(x) = n - 1 },
                                           c \in QueryAlphabet }

FilterInput == \E value \in Strings(MaxQueryLen) : setSearchQuery(value)

NextFilter ==
    \/ Mount
    \/ FilterInput

SpecFilter == Init /\ [][NextFilter]_vars

----------------------------------------------------------------------------
(* Properties *)

Range(s) == { s[i] : i \in DOMAIN s }

PlayCall == <<Call("play", 0, "")>>

PauseCall == <<Call("pause", 0, "")>>

\* C1: a togglePlay inverts the displayed is-playing flag and calls exactly
\* one native method once, pause() if the flag was true and play() if it was
\* false; after a run of n toggles the flag is its value at the start of the
\* run XOR (n odd).
C1_ToggleInvertsAndCallsOnce ==
    /\ [][lastEvent' = "togglePlay" =>
            /\ isPlaying' = ~isPlaying
            /\ calls' = IF isPlaying THEN PauseCall ELSE PlayCall
            /\ audio' = IF isPlaying THEN pause(audio) ELSE play(audio)]_vars
    /\ [](isPlaying = (toggleBase # toggleOdd))

C1_Witness ==
    /\ lastEvent = "togglePlay"
    /\ calls = PauseCall
    /\ ~toggleOdd
    /\ ~isPlaying
    /\ audio.paused

\* C2: after handleSeek with requested time t, the displayed elapsed time and
\* the position the native handle reports both equal t clamped to
\* [0, duration].
C2_SeekSetsBothClamped ==
    lastEvent = "handleSeek" =>
        LET t       == parseFloat(eventValue)
            clamped == Max(0, Min(t, duration))
        IN  /\ currentTime = clamped
            /\ getCurrentTime(audio) = clamped
            /\ currentTime = getCurrentTime(audio)

C2_Witness ==
    /\ lastEvent = "handleSeek"
    /\ audio.readyState = "HAVE_METADATA"
    /\ currentTime = MediaDurationSec * Scale
    /\ audio.position = currentTime

\* C3: the displayed volume is within [0,1] and the displayed elapsed time
\* is within [0, displayed duration], in every reachable state.
C3_VolumeAndTimeInRange ==
    /\ 0 <= volume /\ volume <= Scale
    /\ 0 <= currentTime /\ currentTime <= duration

\* C9: the displayed is-playing flag is true exactly when the native handle
\* is playing (not paused and not ended); stated for the states in which the
\* view is mounted, the only ones in which the flag is displayed.
C9_FlagMatchesPlayback ==
    phase = "mounted" => isPlaying = (~audio.paused /\ ~endedPlayback(audio))

\* C10: the displayed volume equals the native handle's volume in every
\* reachable state, the initial one included.
C10_VolumeMatchesHandle == volume = audio.volume

\* C4: changeTrack makes the clicked track the active one, sets the
\* displayed elapsed time to 0 and the is-playing flag to false, and assigns
\* the track's url to the native handle's src; the displayed volume and the
\* search string are left unchanged.
C4_ChangeTrackResets ==
    [][lastEvent' = "changeTrack" =>
         \E i \in 1..Len(sampleTracks) :
            LET track == sampleTracks[i]
            IN  /\ eventValue' = IntToString(track.id)
                /\ currentTrack' = track
                /\ currentTime' = 0
                /\ isPlaying' = FALSE
                /\ calls' = <<Call("setSrc", 0, track.url)>>
                /\ audio'.src = track.url
                /\ audio'.readyState = "HAVE_NOTHING"
                /\ volume' = volume
                /\ searchQuery' = searchQuery]_vars

C4_Witness ==
    /\ lastEvent = "changeTrack"
    /\ currentTrack = sampleTracks[3]
    /\ volume # InitialVolume
    /\ searchQuery # <<>>
    /\ audio.tasks = <<"timeupdate">>
    /\ ~isPlaying
    /\ currentTime = 0

\* Whether two characters are the same letter, whatever their case.
SameLetter(a, b) ==
    a = b \/ \E k \in 1..26 : {a, b} = {UpperCase[k], LowerCase[k]}

ContainsIgnoreCase(s, q) ==
    \E off \in 0..(Len(s) - Len(q)) :
        \A k \in 1..Len(q) : SameLetter(s[off + k], q[k])

\* The k-th smallest element of a set of numbers.
KthOf(S, k) == CHOOSE x \in S : Cardinality({ y \in S : y < x }) = k - 1

\* C5: the filtered list is the full list when the search string is empty,
\* and otherwise exactly the tracks, in their original order, whose title or
\* artist contains the search string as a case-insensitive substring; only
\* tracks of the fixed list appear in it.
C5_FilterIsMatchingSubsequence ==
    LET matching == { i \in 1..Len(sampleTracks) :
                        \/ ContainsIgnoreCase(sampleTracks[i].title, searchQuery)
                        \/ ContainsIgnoreCase(sampleTracks[i].artist, searchQuery) }
    IN  /\ filteredTracks =
              [ k \in 1..Cardinality(matching) |-> sampleTracks[KthOf(matching, k)] ]
        /\ searchQuery = <<>> => filteredTracks = sampleTracks
        /\ Range(filteredTracks) \subseteq Range(sampleTracks)

C5_Witness ==
    /\ lastEvent = "setSearchQuery"
    /\ searchQuery # toLowerCase(searchQuery)
    /\ Len(searchQuery) = MaxQueryLen
    /\ Len(filteredTracks) = 1
    /\ filteredTracks[1] = sampleTracks[3]

\* C6: after handleVolumeChange with the slider at v, the native handle's
\* volume and the displayed volume both equal v, neither scaled nor rounded;
\* the is-playing flag, elapsed time, duration and active track are left
\* unchanged.
C6_VolumePropagatesUnchanged ==
    [][lastEvent' = "handleVolumeChange" =>
         /\ \E v \in 0..Scale :
               /\ eventValue' = NumberToString(v)
               /\ audio'.volume = v
               /\ volume' = v
         /\ UNCHANGED <<isPlaying, currentTime, duration, currentTrack>>]_vars

C6_Witness ==
    /\ lastEvent = "handleVolumeChange"
    /\ volume % Scale # 0
    /\ audio.volume = volume
    /\ isPlaying
    /\ currentTime > 0

\* C7: the three listeners are attached once at mount, one per event kind,
\* and all detached at unmount; after the unmount no media event changes the
\* displayed elapsed time, duration or is-playing flag.
C7_ListenersDetachedAtUnmount ==
    /\ [](\A k \in EventKinds : listeners[k] <= 1)
    /\ [](phase = "mounted" => \A k \in EventKinds : listeners[k] = 1)
    /\ [](phase = "unmounted" => \A k \in EventKinds : listeners[k] = 0)
    /\ [][phase = "unmounted" => UNCHANGED <<currentTime, duration, isPlaying>>]_vars

C7_Witness ==
    /\ phase = "unmounted"
    /\ lastEvent = "timeupdate"
    /\ currentTime # getCurrentTime(audio)
    /\ isPlaying

\* C8: while the view is mounted each media event is mirrored into one
\* display field and leaves the others unchanged: timeupdate sets the
\* elapsed time to the handle's position, loadedmetadata sets the duration
\* to the handle's duration, ended sets the is-playing flag to false, so
\* that the next togglePlay after ended calls play().
C8_MediaEventsMirrored ==
    /\ [][(phase = "mounted" /\ lastEvent' \in EventKinds) =>
            /\ lastEvent' = "timeupdate" =>
                  /\ currentTime' = getCurrentTime(audio')
                  /\ UNCHANGED <<duration, isPlaying>>
            /\ lastEvent' = "loadedmetadata" =>
                  /\ duration' = audio'.duration
                  /\ UNCHANGED <<currentTime, isPlaying>>
            /\ lastEvent' = "ended" =>
                  /\ isPlaying' = FALSE
                  /\ UNCHANGED <<currentTime, duration>>
            /\ UNCHANGED <<volume, searchQuery, currentTrack>>]_vars
    /\ [][(phase = "mounted" /\ lastEvent = "ended" /\ lastEvent' = "togglePlay") =>
            calls' = PlayCall]_vars

C8_Witness ==
    /\ phase = "mounted"
    /\ lastEvent = "togglePlay"
    /\ calls = PlayCall
    /\ isPlaying
    /\ toggleBase = FALSE /\ toggleOdd
    /\ currentTime = duration
    /\ duration = MediaDurationSec * Scale
    /\ audio.position = 0

====
